---------------------------- MODULE Spec2Model ----------------------------
(***************************************************************************)
(* Orbit_Vis_V1.js: a TLE file is fetched, parsed into element sets         *)
(* (parseTLEText), each element set is sampled over the animation window    *)
(* into a SampledPositionProperty (addSatelliteFromTLE), and init() adds    *)
(* the satellite entities, flies to them and derives the ground tracks.     *)
(*                                                                         *)
(* Strings are sequences of one-character strings.  Instants are seconds.   *)
(***************************************************************************)
EXTENDS Integers, Sequences, FiniteSets, TLC

VARIABLES
    pc,         \* where init() stands: "start", "scan", "map", "sample", "ground", "catch", "done"
    start,      \* const start = JulianDate.now()
    res,        \* loadTLEsFromPublic: the fetch's response: "none" before it, then "ok" or "notOk" (res.ok)
    text,       \* parseTLEText: its argument
    lines,      \* parseTLEText: const lines
    i,          \* parseTLEText: the loop index (0-based, as in the code)
    out,        \* parseTLEText: const out
    tles,       \* init: const tles
    k,          \* init: index of the element set / entity being processed (1-based)
    satrec,     \* addSatelliteFromTLE: const satrec (the instants SGP4 has no solution at)
    position,   \* addSatelliteFromTLE: const position (its samples, in addSample order)
    t,          \* addSatelliteFromTLE: the loop variable t
    entities    \* viewer.entities, in the order of viewer.entities.add

vars == <<pc, start, res, text, lines, i, out, tles, k, satrec, position, t, entities>>

---------------------------------------------------------------------------
(* Bounds *)

\* Most raw lines of a text parseTLEText is applied to on its own.
MaxLines == 5
\* Most raw lines of the file a whole session loads.
MaxFileLines == 5
\* Length of the animation window in seconds (the code's timewindow, in hours, scaled down).
WindowSec == 40

---------------------------------------------------------------------------
(* Characters and strings *)

LF == "\n"
CR == "\r"

\* String.prototype.trim's white space, as far as the texts here hold any.
IsSpace(c) == c \in {" ", CR, LF, "\t"}

\* lines[i + 1] past the end of the array
Undefined == <<"undefined">>

RECURSIVE SplitFrom(_, _, _)
\* text.split(/\r?\n/), reading s from index n with the piece cur in progress
SplitFrom(s, n, cur) ==
    IF n > Len(s) THEN <<cur>>
    ELSE IF s[n] = LF THEN <<cur>> \o SplitFrom(s, n + 1, <<>>)
    ELSE IF s[n] = CR /\ n < Len(s) /\ s[n + 1] = LF
         THEN <<cur>> \o SplitFrom(s, n + 2, <<>>)
    ELSE SplitFrom(s, n + 1, Append(cur, s[n]))

Split(s) == SplitFrom(s, 1, <<>>)

RECURSIVE TrimStart(_)
TrimStart(s) ==
    IF s # <<>> /\ IsSpace(Head(s)) THEN TrimStart(Tail(s)) ELSE s

RECURSIVE TrimEnd(_)
TrimEnd(s) ==
    IF s # <<>> /\ IsSpace(s[Len(s)]) THEN TrimEnd(SubSeq(s, 1, Len(s) - 1)) ELSE s

\* l.trim()
Trim(s) == TrimEnd(TrimStart(s))

MapTrim(ls) == [n \in 1..Len(ls) |-> Trim(ls[n])]

\* Boolean(l) of a string: false for the empty string only
Truthy(l) == l # <<>>

\* text.split(/\r?\n/).map((l) => l.trim()).filter(Boolean)
NormalizedLines(s) == SelectSeq(MapTrim(Split(s)), Truthy)

\* l.startsWith(p)
StartsWith(l, p) == Len(l) >= Len(p) /\ SubSeq(l, 1, Len(p)) = p

\* lines[n] of a JavaScript array (0-based)
At(ls, n) == IF n >= 0 /\ n < Len(ls) THEN ls[n + 1] ELSE Undefined

\* lines[n]?.startsWith(p): undefined, hence falsy, past the end
OptStartsWith(ls, n, p) == At(ls, n) # Undefined /\ StartsWith(At(ls, n), p)

DigitChar == <<"0", "1", "2", "3", "4", "5", "6", "7", "8", "9">>

RECURSIVE NumberToString(_)
\* `${n}` of a non-negative integer
NumberToString(n) ==
    IF n < 10 THEN <<DigitChar[n + 1]>>
    ELSE NumberToString(n \div 10) \o <<DigitChar[(n % 10) + 1]>>

\* `SAT ${n}`
SatName(n) == <<"S", "A", "T", " ">> \o NumberToString(n)

Mark1 == <<"1", " ">>
Mark2 == <<"2", " ">>

---------------------------------------------------------------------------
(* parseTLEText *)

\* BarePairAt without the test of the next line
BarePairNoLine2(ls, n) == StartsWith(At(ls, n), Mark1)

\* the first if: lines[i].startsWith("1 ") && lines[i + 1]?.startsWith("2 ")
BarePairAt(ls, n) == StartsWith(At(ls, n), Mark1) /\ OptStartsWith(ls, n + 1, Mark2)

\* the else if: a name line, then a "1 " line, then a "2 " line
NamedGroupAt(ls, n) ==
    /\ ~StartsWith(At(ls, n), Mark1)
    /\ OptStartsWith(ls, n + 1, Mark1)
    /\ OptStartsWith(ls, n + 2, Mark2)

\* BareSet numbering from out.length instead of out.length + 1
BareSetZeroBased(ls, n, o) == [name |-> SatName(Len(o)), tle1 |-> At(ls, n), tle2 |-> At(ls, n + 1)]

\* the record pushed by the first branch
BareSet(ls, n, o) == [name |-> SatName(Len(o) + 1), tle1 |-> At(ls, n), tle2 |-> At(ls, n + 1)]

\* NamedSet taking the name from the line after the name line
NamedSetWrongName(ls, n) == [name |-> At(ls, n + 1), tle1 |-> At(ls, n + 1), tle2 |-> At(ls, n + 2)]

\* the record pushed by the second branch
NamedSet(ls, n) == [name |-> At(ls, n), tle1 |-> At(ls, n + 1), tle2 |-> At(ls, n + 2)]

\* ScanBody with an else branch that skips the line after the junk line too
ScanBodySkipsTwo(ls, n, o) ==
    IF BarePairAt(ls, n)
    THEN [i |-> n + 2, out |-> Append(o, BareSet(ls, n, o))]
    ELSE IF NamedGroupAt(ls, n)
    THEN [i |-> n + 3, out |-> Append(o, NamedSet(ls, n))]
    ELSE [i |-> n + 2, out |-> o]

\* one iteration of the for loop's body, from index n with output o
ScanBody(ls, n, o) ==
    IF BarePairAt(ls, n)
    THEN [i |-> n + 2, out |-> Append(o, BareSet(ls, n, o))]
    ELSE IF NamedGroupAt(ls, n)
    THEN [i |-> n + 3, out |-> Append(o, NamedSet(ls, n))]
    ELSE [i |-> n + 1, out |-> o]

\* ScanCond running one index past the end
ScanCondInclusive(ls, n) == n <= Len(ls)

\* the for loop's condition
ScanCond(ls, n) == n < Len(ls)

RECURSIVE ScanFrom(_, _, _)
\* the for loop run to its end from index n with output o
ScanFrom(ls, n, o) ==
    IF ScanCond(ls, n)
    THEN LET r == ScanBody(ls, n, o) IN ScanFrom(ls, r.i, r.out)
    ELSE o

\* parseTLEText applied to an already normalized line list
ParseLines(ls) == ScanFrom(ls, 0, <<>>)

---------------------------------------------------------------------------
(* Inputs *)

\* Raw lines a text is made of: a white-space-only line, a name, a "1 " line
\* ending in CR (a CRLF file), a "2 " line with leading and trailing spaces, a second "2 " line.
RawLines ==
    { <<" ">>,
      <<"x">>,
      <<"1", " ", "x", CR>>,
      <<" ", "2", " ", "y", " ">>,
      <<"2", " ", "x">> }

\* The raw lines of the file a session loads.
FileRawLines ==
    { <<" ">>,
      <<"x">>,
      <<"1", " ", "x", CR>>,
      <<" ", "2", " ", "y", " ">> }

RECURSIVE LineSeqs(_, _)
\* the sequences of at most n raw lines of S
LineSeqs(S, n) ==
    IF n = 0 THEN {<<>>}
    ELSE LET P == LineSeqs(S, n - 1)
         IN  P \cup {Append(p, l) : p \in {q \in P : Len(q) = n - 1}, l \in S}

RECURSIVE Join(_)
\* the raw lines joined by LF
Join(ls) ==
    IF ls = <<>> THEN <<>>
    ELSE IF Len(ls) = 1 THEN ls[1]
    ELSE ls[1] \o <<LF>> \o Join(Tail(ls))

Texts == {Join(ls) : ls \in LineSeqs(RawLines, MaxLines)}

FileTexts == {Join(ls) : ls \in LineSeqs(FileRawLines, MaxFileLines)}

\* JulianDate.now() at the session's start
StartTimes == {0, 1000}

---------------------------------------------------------------------------
(* The scan of parseTLEText as steps *)

ScanStep ==
    /\ pc = "scan"
    /\ ScanCond(lines, i)
    /\ LET r == ScanBody(lines, i, out)
       IN  /\ i' = r.i
           /\ out' = r.out
    /\ UNCHANGED <<pc, start, res, text, lines, tles, k, satrec, position, t, entities>>

\* parseTLEText entered with some text: the state loadTLEsFromPublic calls it in.
ParseInit ==
    /\ pc = "scan"
    /\ start = 0
    /\ res = "ok"
    /\ text \in Texts
    /\ lines = NormalizedLines(text)
    /\ i = 0
    /\ out = <<>>
    /\ tles = <<>>
    /\ k = 0
    /\ satrec = {}
    /\ position = <<>>
    /\ t = 0
    /\ entities = <<>>

ParseSpec == ParseInit /\ [][ScanStep]_vars

\* The loop runs on one thread without suspension points: it keeps stepping.
FairParseSpec == ParseSpec /\ WF_vars(ScanStep)

---------------------------------------------------------------------------
(* The animation window and the sampling loops *)

\* the stride of the position samples: t += 10
PathStep == 10
\* the stride of the ground track: t += 30
TrackStep == 30

\* const stop = JulianDate.addHours(start, timewindow, ...)
Stop == start + WindowSec

\* JulianDate.secondsDifference(stop, start)
SpanSec == Stop - start

\* JulianDate.addSeconds(start, tt, ...)
SampleTime(tt) == start + tt

\* the instants of the window on the 10 s grid
GridInstants == {start + g : g \in {h \in 0..WindowSec : h % PathStep = 0}}

\* satellite.propagate(satrec, jsDate).position is truthy: SGP4 has a solution for
\* the record at the instant (the record is the set of instants it has none at)
Propagate(rec, time) == time \notin rec

\* SampleCond running one stride past the end of the window
SampleCondPastEnd(tt) == tt <= SpanSec + PathStep

\* the condition of addSatelliteFromTLE's for loop
SampleCond(tt) == tt <= SpanSec

\* SampleBody without the continue: a sample is added whatever propagate returns
SampleBodyNoSkip(pos, rec, tt) == Append(pos, SampleTime(tt))

\* one iteration of addSatelliteFromTLE's for loop: continue without a position,
\* position.addSample(sampleTime, ...) with one
SampleBody(pos, rec, tt) ==
    IF ~Propagate(rec, SampleTime(tt)) THEN pos ELSE Append(pos, SampleTime(tt))

\* the instants of the samples of a SampledPositionProperty
SampleTimes(pos) == {pos[n] : n \in 1..Len(pos)}

\* ent.position.getValue(time) is defined: Cesium's SampledPositionProperty gives the
\* sample at time, interpolates between the samples around it, and gives undefined
\* when it has no sample or time lies before the first or after the last one
\* (both extrapolation types default to NONE)
HasValue(pos, time) ==
    /\ pos # <<>>
    /\ \E a \in SampleTimes(pos) : a <= time
    /\ \E b \in SampleTimes(pos) : time <= b

RECURSIVE TrackFrom(_, _)
\* the ground track loop of one entity from tt on: the instants whose point is pushed
TrackFrom(pos, tt) ==
    IF tt <= SpanSec
    THEN (IF HasValue(pos, SampleTime(tt)) THEN <<SampleTime(tt)>> ELSE <<>>)
         \o TrackFrom(pos, tt + TrackStep)
    ELSE <<>>

\* FetchThrows without the test of res.ok
FetchNeverThrows(r) == FALSE

\* if (!res.ok) throw
FetchThrows(r) == r # "ok"

---------------------------------------------------------------------------
(* init() *)

Entity(kind, name, samples) == [kind |-> kind, name |-> name, samples |-> samples]

\* `${tles[i].name} ground track`
TrackName(name) == name \o <<" ", "g", "r", "o", "u", "n", "d", " ", "t", "r", "a", "c", "k">>

\* const res = await fetch(file); res.ok is false: loadTLEsFromPublic throws
FetchFails ==
    /\ pc = "start"
    /\ \E r \in {"ok", "notOk"} :
          /\ FetchThrows(r)
          /\ res' = r
    /\ pc' = "catch"
    /\ UNCHANGED <<start, text, lines, i, out, tles, k, satrec, position, t, entities>>

\* res.ok is true: parseTLEText(await res.text()) is entered
FetchOk ==
    /\ pc = "start"
    /\ \E r \in {"ok", "notOk"} :
          /\ ~FetchThrows(r)
          /\ res' = r
    /\ \E txt \in FileTexts :
          /\ text' = txt
          /\ lines' = NormalizedLines(txt)
    /\ i' = 0
    /\ out' = <<>>
    /\ pc' = "scan"
    /\ UNCHANGED <<start, tles, k, satrec, position, t, entities>>

\* return out; const tles = await loadTLEsFromPublic(...)
ParseReturn ==
    /\ pc = "scan"
    /\ ~ScanCond(lines, i)
    /\ tles' = out
    /\ text' = <<>>
    /\ lines' = <<>>
    /\ i' = 0
    /\ out' = <<>>
    /\ k' = 1
    /\ pc' = "map"
    /\ UNCHANGED <<start, res, satrec, position, t, entities>>

\* if (!tles.length): the "No valid TLEs found" label, and return
NoValidTLEs ==
    /\ pc = "map"
    /\ Len(tles) = 0
    /\ entities' = Append(entities, Entity("noTLEsLabel", <<>>, <<>>))
    /\ pc' = "done"
    /\ UNCHANGED <<start, res, text, lines, i, out, tles, k, satrec, position, t>>

\* tles.map: addSatelliteFromTLE is entered for tles[k]; twoline2satrec gives the record
BeginSatellite ==
    /\ pc = "map"
    /\ k <= Len(tles)
    /\ \E rec \in SUBSET GridInstants : satrec' = rec
    /\ position' = <<>>
    /\ t' = 0
    /\ pc' = "sample"
    /\ UNCHANGED <<start, res, text, lines, i, out, tles, k, entities>>

\* one iteration of the sampling loop
SampleStep ==
    /\ pc = "sample"
    /\ SampleCond(t)
    /\ position' = SampleBody(position, satrec, t)
    /\ t' = t + PathStep
    /\ UNCHANGED <<pc, start, res, text, lines, i, out, tles, k, satrec, entities>>

\* return viewer.entities.add({name, position, ...})
AddSatellite ==
    /\ pc = "sample"
    /\ ~SampleCond(t)
    /\ entities' = Append(entities, Entity("satellite", tles[k].name, position))
    /\ k' = k + 1
    /\ satrec' = {}
    /\ position' = <<>>
    /\ t' = 0
    /\ pc' = "map"
    /\ UNCHANGED <<start, res, text, lines, i, out, tles>>

\* the map is over: await viewer.flyTo(entities)
FlyTo ==
    /\ pc = "map"
    /\ Len(tles) > 0
    /\ k > Len(tles)
    /\ k' = 1
    /\ pc' = "ground"
    /\ UNCHANGED <<start, res, text, lines, i, out, tles, satrec, position, t, entities>>

\* one iteration of the loop over entities.entries(): the ground track of entity k
\* (the array entities of init is the first Len(tles) entries of viewer.entities)
GroundTrack ==
    /\ pc = "ground"
    /\ k <= Len(tles)
    /\ entities' = Append(entities,
                          Entity("groundTrack", TrackName(tles[k].name),
                                 TrackFrom(entities[k].samples, 0)))
    /\ k' = k + 1
    /\ UNCHANGED <<pc, start, res, text, lines, i, out, tles, satrec, position, t>>

\* the loop over the entities is over: init returns
Finish ==
    /\ pc = "ground"
    /\ k > Len(tles)
    /\ pc' = "done"
    /\ UNCHANGED <<start, res, text, lines, i, out, tles, k, satrec, position, t, entities>>

\* catch (err): the "Error: ..." label
Catch ==
    /\ pc = "catch"
    /\ entities' = Append(entities, Entity("errorLabel", <<>>, <<>>))
    /\ pc' = "done"
    /\ UNCHANGED <<start, res, text, lines, i, out, tles, k, satrec, position, t>>

Init ==
    /\ pc = "start"
    /\ start \in StartTimes
    /\ res = "none"
    /\ text = <<>>
    /\ lines = <<>>
    /\ i = 0
    /\ out = <<>>
    /\ tles = <<>>
    /\ k = 0
    /\ satrec = {}
    /\ position = <<>>
    /\ t = 0
    /\ entities = <<>>

Next ==
    \/ FetchFails
    \/ FetchOk
    \/ ScanStep
    \/ ParseReturn
    \/ NoValidTLEs
    \/ BeginSatellite
    \/ SampleStep
    \/ AddSatellite
    \/ FlyTo
    \/ GroundTrack
    \/ Finish
    \/ Catch

Spec == Init /\ [][Next]_vars

---------------------------------------------------------------------------
(* Vocabulary of the properties of parseTLEText *)

\* a line that starts with "1 "
IsLine1(l) == Len(l) >= 2 /\ l[1] = "1" /\ l[2] = " "

\* a line that starts with "2 "
IsLine2(l) == Len(l) >= 2 /\ l[1] = "2" /\ l[2] = " "

\* the for loop of parseTLEText has been left
ParseDone == pc = "scan" /\ ~(i < Len(lines))

\* ls with the line j inserted so that p lines precede it
InsertAt(ls, p, j) == SubSeq(ls, 1, p) \o <<j>> \o SubSeq(ls, p + 1, Len(ls))

\* lines that are neither "1 " nor "2 " lines
JunkLines == { <<"x">>, <<"1">>, <<"#", " ", "1">> }

\* a "1 " line directly followed by a "2 " line somewhere in ls
HasAdjacentPair(ls) == \E m \in 1..(Len(ls) - 1) : IsLine1(ls[m]) /\ IsLine2(ls[m + 1])

\* the normalized line list is a name line, a "1 " line and a "2 " line
ThreeLineInput == Len(lines) = 3 /\ IsLine1(lines[2]) /\ IsLine2(lines[3])

---------------------------------------------------------------------------
(* C1 *)

\* C1 as stated: for a three-line input [name, L1, L2], whatever the name line,
\* parseTLEText returns exactly one ElementSet, named by the name line, with L1 and L2.
C1_AnyNameLine ==
    (ParseDone /\ ThreeLineInput)
        => out = <<[name |-> lines[1], tle1 |-> lines[2], tle2 |-> lines[3]]>>

\* C1 (amended): for a three-line input [name, L1, L2] whose name line does not itself
\* start with "1 ", parseTLEText returns exactly one ElementSet, named by the name
\* line, with tle1 = L1 and tle2 = L2.
C1_NamedTriple ==
    (ParseDone /\ ThreeLineInput /\ ~IsLine1(lines[1]))
        => out = <<[name |-> lines[1], tle1 |-> lines[2], tle2 |-> lines[3]]>>

\* a three-line input with a name line "2 ..." has been parsed into one named ElementSet
C1_Witness ==
    /\ ParseDone
    /\ ThreeLineInput
    /\ IsLine2(lines[1])
    /\ Len(out) = 1
    /\ out[1].name = lines[1]

---------------------------------------------------------------------------
(* C2 *)

\* the scan is at a "1 " line directly followed by a "2 " line
AtBarePair ==
    /\ pc = "scan"
    /\ i + 2 <= Len(lines)
    /\ IsLine1(lines[i + 1])
    /\ IsLine2(lines[i + 2])

\* the step appends one ElementSet named "SAT k", k the new length of out
EmitsSatK ==
    /\ Len(out') = Len(out) + 1
    /\ SubSeq(out', 1, Len(out)) = out
    /\ out'[Len(out')] = [name |-> <<"S", "A", "T", " ">> \o NumberToString(Len(out) + 1),
                          tle1 |-> lines[i + 1],
                          tle2 |-> lines[i + 2]]

\* the results the claim names: a lone pair is "SAT 1", two pairs are "SAT 1", "SAT 2"
LonePairResult ==
    (ParseDone /\ Len(lines) = 2 /\ IsLine1(lines[1]) /\ IsLine2(lines[2]))
        => (Len(out) = 1 /\ out[1].name = <<"S", "A", "T", " ", "1">>)

TwoPairsResult ==
    (ParseDone /\ Len(lines) = 4 /\ IsLine1(lines[1]) /\ IsLine2(lines[2])
               /\ IsLine1(lines[3]) /\ IsLine2(lines[4]))
        => (/\ Len(out) = 2
            /\ out[1].name = <<"S", "A", "T", " ", "1">>
            /\ out[2].name = <<"S", "A", "T", " ", "2">>)

\* C2: every step of the scan taken at a bare pair appends an ElementSet named "SAT k",
\* k the 1-based count of the ElementSets emitted so far including this one; a lone
\* two-line input yields one ElementSet "SAT 1", two bare pairs yield "SAT 1", "SAT 2".
C2_SatNames ==
    /\ [](LonePairResult /\ TwoPairsResult)
    /\ [][AtBarePair => EmitsSatK]_vars

\* a bare pair after a named group has been emitted as "SAT 2"
C2_Witness ==
    /\ ParseDone
    /\ Len(out) = 2
    /\ out[1].name = <<"x">>
    /\ out[2].name = <<"S", "A", "T", " ", "2">>

---------------------------------------------------------------------------
(* C3 *)

\* C3 as stated: a junk line inserted at any position of any line list leaves the
\* ElementSets parseTLEText returns unchanged.
C3_JunkAnywhere ==
    \A p \in 0..Len(lines) : \A j \in JunkLines :
        ParseLines(InsertAt(lines, p, j)) = ParseLines(lines)

\* C3 (amended): a junk line inserted at an index the scan of the list examines (the
\* start of a group or of a dropped line, or the end of the list), and not directly
\* in front of a bare "1 "/"2 " pair, leaves the ElementSets parseTLEText returns
\* unchanged.
C3_JunkAtBoundary ==
    (pc = "scan" /\ i <= Len(lines) /\ ~AtBarePair)
        => \A j \in JunkLines : ParseLines(InsertAt(lines, i, j)) = ParseLines(lines)

\* the scan stands between an emitted group and a following named group
C3_Witness ==
    /\ pc = "scan"
    /\ Len(out) = 1
    /\ i + 3 <= Len(lines)
    /\ ~IsLine1(lines[i + 1])
    /\ IsLine1(lines[i + 2])
    /\ IsLine2(lines[i + 3])
    /\ Len(ParseLines(InsertAt(lines, i, <<"x">>))) = 2

---------------------------------------------------------------------------
(* C4 *)

\* no ElementSet holds a line read past the end of the array
NoMissingLine ==
    \A n \in 1..Len(out) :
        out[n].name # Undefined /\ out[n].tle1 # Undefined /\ out[n].tle2 # Undefined

C4_Safe ==
    /\ pc = "scan" => i <= Len(lines)
    /\ pc = "scan" => NoMissingLine
    /\ ParseDone => i = Len(lines)
    /\ (ParseDone /\ ~HasAdjacentPair(lines)) => out = <<>>

\* C4: for every text the scan ends, with the index at the end of the line list; a
\* lookup at i+1 or i+2 past the end matches nothing, and a line list without a
\* valid group yields the empty sequence.
C4_ScanTerminates == <>ParseDone /\ []C4_Safe

\* a text whose last line is a "1 " line without its "2 " line has been scanned to the end
C4_Witness ==
    /\ ParseDone
    /\ Len(lines) >= 2
    /\ IsLine1(lines[Len(lines)])
    /\ ~IsLine1(lines[Len(lines) - 1])
    /\ out = <<>>

---------------------------------------------------------------------------
(* C5 *)

\* C5: at every step of the scan every ElementSet of out has a non-empty name, a tle1
\* that is a line of the input starting with "1 ", and a tle2 that is the line right
\* after it and starts with "2 ".
C5_ElementSetsWellFormed ==
    pc = "scan" =>
        \A n \in 1..Len(out) :
            /\ Len(out[n].name) > 0
            /\ out[n].name # Undefined
            /\ \E m \in 1..(Len(lines) - 1) :
                  /\ lines[m] = out[n].tle1
                  /\ lines[m + 1] = out[n].tle2
                  /\ IsLine1(lines[m])
                  /\ IsLine2(lines[m + 1])

\* the scan is under way: a named group is in out and a bare pair with another
\* "2 " line is still to come
C5_Witness ==
    /\ pc = "scan"
    /\ Len(out) = 1
    /\ out[1].name = <<"x">>
    /\ AtBarePair
    /\ lines[i + 2] # out[1].tle2

---------------------------------------------------------------------------
(* Vocabulary of the properties of the session *)

\* the offsets of the 10 s grid within the window
PathGrid == {g \in 0..WindowSec : g % 10 = 0}

StrictlyIncreasing(pos) == \A a, b \in 1..Len(pos) : a < b => pos[a] < pos[b]

WithinWindow(pos) == \A n \in 1..Len(pos) : start <= pos[n] /\ pos[n] <= start + WindowSec

\* the entities of one kind, as indices of viewer.entities
OfKind(kind) == {n \in 1..Len(entities) : entities[n].kind = kind}

\* the instants of the path grid before offset tt at which the record has a solution
SolvedBefore(rec, tt) == {start + g : g \in {h \in PathGrid : h < tt /\ (start + h) \notin rec}}

---------------------------------------------------------------------------
(* C6 *)

\* C6: the sample times addSatelliteFromTLE adds are strictly increasing in insertion
\* order and lie within [start, stop], during the loop and in the entity it returns.
C6_SamplesOrderedInWindow ==
    /\ StrictlyIncreasing(position)
    /\ WithinWindow(position)
    /\ \A n \in OfKind("satellite") :
          StrictlyIncreasing(entities[n].samples) /\ WithinWindow(entities[n].samples)

\* a satellite entity whose trajectory has a gap and ends at stop, in a session that
\* did not start at instant 0
C6_Witness ==
    /\ start > 0
    /\ \E n \in OfKind("satellite") :
          /\ Len(entities[n].samples) = 3
          /\ entities[n].samples[1] = start
          /\ entities[n].samples[3] = start + WindowSec

---------------------------------------------------------------------------
(* C7 *)

\* during the loop the samples are those of the grid instants passed so far that
\* have a solution, each once
C7_During ==
    pc = "sample" =>
        /\ SampleTimes(position) = SolvedBefore(satrec, t)
        /\ Len(position) = Cardinality(SolvedBefore(satrec, t))

\* addSatelliteFromTLE returns only after the whole grid, with exactly the instants
\* that have a solution
C7_AtReturn ==
    (pc = "sample" /\ pc' # "sample") =>
        /\ t > WindowSec
        /\ SampleTimes(position) = SolvedBefore(satrec, WindowSec + 1)
        /\ entities' = Append(entities, [kind |-> "satellite", name |-> tles[k].name,
                                          samples |-> position])

\* C7: the trajectory holds a sample at start+t exactly for the grid offsets t at
\* which propagation reports a position; a failure at one t neither ends the loop nor
\* raises, so an orbit that decays mid-window leaves exactly the samples up to the
\* decay, and one that never propagates leaves the empty trajectory.
C7_SamplesExactlySolved == []C7_During /\ [][C7_AtReturn]_vars

\* the loop is over for a record that fails at every instant after offset 20: the
\* trajectory is the samples at offsets 0, 10, 20
C7_Witness ==
    /\ pc = "sample"
    /\ t > WindowSec
    /\ satrec = {start + g : g \in {h \in PathGrid : h > 20}}
    /\ position = <<start, start + 10, start + 20>>

---------------------------------------------------------------------------
(* C8 *)

\* the satellite entity the ground track at index n of viewer.entities was derived from
SatelliteOf(n) == entities[n - Len(tles)]

\* C8 as stated: every ground-track point is at the instant of a retained trajectory
\* sample, so a ground track has at most as many points as its trajectory has samples
\* on the 30 s grid.
C8_TrackFromRetainedSamples ==
    \A n \in OfKind("groundTrack") :
        LET track == entities[n].samples
            traj  == SampleTimes(SatelliteOf(n).samples)
        IN  /\ \A m \in 1..Len(track) : track[m] \in traj
            /\ Len(track) <= Cardinality({a \in traj : (a - start) % 30 = 0})

---------------------------------------------------------------------------
(* C9 *)

\* C9 as stated: a session that finishes init with an empty element-set list, or with
\* a satellite whose trajectory is empty, displays a notice entity.
C9_NoticeWhenEmpty ==
    (pc = "done" /\ res = "ok"
        /\ (tles = <<>> \/ \E n \in OfKind("satellite") : entities[n].samples = <<>>))
        => (OfKind("noTLEsLabel") \cup OfKind("errorLabel")) # {}

---------------------------------------------------------------------------
(* C10 *)

\* C10: after a fetch whose response is not ok, parseTLEText is never applied, no
\* satellite or ground-track entity is ever added, and the failure is surfaced once,
\* by the error label the catch of init adds.
C10_FetchFailureIsFatal ==
    res = "notOk" =>
        /\ pc \in {"catch", "done"}
        /\ text = <<>> /\ lines = <<>> /\ out = <<>> /\ tles = <<>>
        /\ OfKind("satellite") = {} /\ OfKind("groundTrack") = {}
        /\ pc = "catch" => entities = <<>>
        /\ pc = "done" => (Len(entities) = 1 /\ entities[1].kind = "errorLabel")

\* a session whose fetch failed has ended with the error label alone
C10_Witness ==
    /\ res = "notOk"
    /\ pc = "done"
    /\ Len(entities) = 1
    /\ entities[1].kind = "errorLabel"

=============================================================================
